---- MODULE Spec2Model ----
(***************************************************************************)
(* warelib: the callback lifecycle (callbacks.py) and the WareManager     *)
(* batch operations (manager.py), as a state machine.                     *)
(*                                                                         *)
(* A ware is a named bundle of callbacks.  A callback has one of the      *)
(* shapes of callbacks.py; a generator callback owns a handle (_gen) to   *)
(* a Python generator and an _ended flag.  The body of a ware's callback  *)
(* function is host code: it is described by a small "process" record     *)
(* that says how many values it yields, how it finishes and how it        *)
(* reacts to a thrown termination signal.                                  *)
(***************************************************************************)
EXTENDS Integers, Sequences, FiniteSets, TLC

\* ---------------------------------------------------------------- bounds
MaxYield == 2      \* a finite process yields 0..MaxYield values
MaxPos == 3        \* a never-ending process is advanced at most MaxPos times
MaxLoaded == 3     \* the host holds at most MaxLoaded imported modules at a time

\* ------------------------------------------------------- wares and names
\* The wares handed to WareManager.__init__, in that order.
WareOrder == <<"A", "B">>
WareNames == {WareOrder[i] : i \in 1..Len(WareOrder)}
\* A ware name that is not in the registry.
AbsentName == "Z"
\* Insertion order of ware.callbacks (a dict).
CbOrder == <<"tick", "draw", "reset">>
CbNames == {CbOrder[i] : i \in 1..Len(CbOrder)}

\* ----------------------------------------------------------------- values
Val(t, i) == [t |-> t, i |-> i]
None == Val("None", 0)
Yielded(i) == Val("yield", i)
FinalValue == Val("final", 0)
CleanedValue == Val("cleaned", 0)
IgnoredValue == Val("ignored", 0)
PlainResult == Val("result", 0)
Coroutine == Val("coroutine", 0)
SentValue == Val("sent", 0)
SendVals == {None, SentValue}

\* An outcome of a call: a returned value or a raised exception.  base is
\* TRUE for an exception that derives from BaseException but not Exception.
Ok(v) == [ok |-> TRUE, v |-> v, cls |-> "", base |-> FALSE]
Raise(cls, v, base) == [ok |-> FALSE, v |-> v, cls |-> cls, base |-> base]

\* exceptions.py: the exception classes and their bases.
WareCallbackMustEnd == Raise("WareCallbackMustEnd", None, TRUE)
WareCallbackEnded(v) == Raise("WareCallbackEnded", v, FALSE)
AsyncWareCallbackEnded == Raise("AsyncWareCallbackEnded", None, FALSE)
WareCallbackBegun == Raise("WareCallbackBegun", None, FALSE)
WareCallbackNotBegun == Raise("WareCallbackNotBegun", None, FALSE)
\* Built-in exceptions raised by the interpreter or by host code.
TypeError(why) == Raise("TypeError", Val(why, 0), FALSE)
KeyError == Raise("KeyError", None, FALSE)
HostError == Raise("HostError", None, FALSE)

\* -------------------------------------------------------------- processes
\* The body of a generator function: it yields n values (forever: without
\* end), then returns FinalValue, or raises HostError when fail is set.
\* onThrow says what it does with a termination signal thrown at a yield.
ThrowKinds == {"unhandled", "return", "yield", "raise"}
FiniteProcs == [n : 0..MaxYield, forever : {FALSE}, fail : BOOLEAN, onThrow : {"unhandled"}]
ForeverProcs == [n : {0}, forever : {TRUE}, fail : {FALSE}, onThrow : ThrowKinds]
Procs == FiniteProcs \cup ForeverProcs
NoProc == [n |-> 0, forever |-> FALSE, fail |-> FALSE, onThrow |-> "unhandled"]
FailProc == [n |-> 0, forever |-> FALSE, fail |-> TRUE, onThrow |-> "unhandled"]

\* A generator object: not held ("none"), created and not started,
\* suspended at a yield after producing pc values, or finished.
NoGen == [h |-> "none", pc |-> 0]
NewGen == [h |-> "created", pc |-> 0]
Gen(h, pc) == [h |-> h, pc |-> pc]

\* generator.send(arg) on generator g running process p.
GenStep(g, kind, out) == [g |-> g, kind |-> kind, out |-> out]
GenSend(p, g, arg) ==
  IF g.h = "finished" THEN GenStep(g, "stop", Ok(None))
  ELSE IF g.h = "created" /\ arg # None
    THEN GenStep(g, "raise", TypeError("can't send non-None value to a just-started generator"))
  ELSE IF p.forever \/ g.pc < p.n
    THEN GenStep(Gen("suspended", g.pc + 1), "yield", Ok(Yielded(g.pc + 1)))
  ELSE IF p.fail THEN GenStep(Gen("finished", g.pc), "raise", HostError)
  ELSE GenStep(Gen("finished", g.pc), "stop", Ok(FinalValue))

\* generator.throw(signal) on generator g running process p.
GenThrow(p, g, signal) ==
  IF g.h # "suspended" THEN GenStep(Gen("finished", g.pc), "raise", signal)
  ELSE CASE p.onThrow = "unhandled" -> GenStep(Gen("finished", g.pc), "raise", signal)
         [] p.onThrow = "return" -> GenStep(Gen("finished", g.pc), "stop", Ok(CleanedValue))
         [] p.onThrow = "yield" -> GenStep(Gen("suspended", g.pc), "yield", Ok(IgnoredValue))
         [] p.onThrow = "raise" -> GenStep(Gen("finished", g.pc), "raise", HostError)

\* asyncgenerator.aclose(), awaited, on async generator g running process p.
AGenClose(p, g) ==
  IF g.h # "suspended" THEN GenStep(Gen("finished", g.pc), "stop", Ok(None))
  ELSE CASE p.onThrow \in {"unhandled", "return"} -> GenStep(Gen("finished", g.pc), "stop", Ok(None))
         [] p.onThrow = "yield" ->
              GenStep(Gen("suspended", g.pc), "raise", Raise("RuntimeError", None, FALSE))
         [] p.onThrow = "raise" -> GenStep(Gen("finished", g.pc), "raise", HostError)

\* -------------------------------------------------------------- callbacks
\* The class of a callback object: the four classes of callbacks.py, an
\* object of some other class ("other"), or no entry in ware.callbacks.
Shapes == {"plain", "gen", "async", "agen", "other", "absent"}
\* isinstance(callback, WareCallback), ... along the class hierarchy:
\* GeneratorWareCallback and AsyncWareCallback derive from WareCallback,
\* AsyncGeneratorWareCallback derives from GeneratorWareCallback.
IsWareCallback(shape) == shape \in {"plain", "gen", "async", "agen"}
IsGeneratorWareCallback(shape) == shape \in {"gen", "agen"}
IsAsyncWareCallback(shape) == shape = "async"
IsAsyncGeneratorWareCallback(shape) == shape = "agen"

\* The state of one callback object: _gen and _ended.
CbState(gen, ended) == [gen |-> gen, ended |-> ended]
CbInit == CbState(NoGen, FALSE)
\* What a method call does: the callback's state after it, and its outcome.
Done(st, out) == [st |-> st, out |-> out]

\* WareCallback.run_once: calls the wrapped function.
Plain_run_once(p, s) ==
  IF p.fail THEN Done(s, HostError) ELSE Done(s, Ok(PlainResult))

\* AsyncWareCallback.run_once called and not awaited: a coroutine object.
Async_run_once(p, s) == Done(s, Ok(Coroutine))

is_active(s) == s.gen.h # "none" /\ ~s.ended

has_ended(s) == s.ended

\* run_once that raises WareCallbackEnded without the value of the process.
Gen_run_once_NoValue(p, s, arg) ==
  IF s.gen.h = "none" THEN Done(s, WareCallbackNotBegun)
  ELSE LET r == GenSend(p, s.gen, arg) IN
       IF r.kind = "stop"
         THEN Done(CbState(r.g, TRUE), WareCallbackEnded(None))
         ELSE Done(CbState(r.g, s.ended), r.out)

\* GeneratorWareCallback.run_once
Gen_run_once(p, s, arg) ==
  IF s.gen.h = "none" THEN Done(s, WareCallbackNotBegun)
  ELSE LET r == GenSend(p, s.gen, arg) IN
       IF r.kind = "stop"
         THEN Done(CbState(r.g, TRUE), WareCallbackEnded(r.out.v))
         ELSE Done(CbState(r.g, s.ended), r.out)

\* begin that refuses only a callback that is active.
Gen_begin_IfActive(p, s) ==
  IF is_active(s) THEN Done(s, WareCallbackBegun)
  ELSE Gen_run_once(p, CbState(NewGen, s.ended), None)

\* GeneratorWareCallback.begin
Gen_begin(p, s) ==
  IF s.gen.h # "none" THEN Done(s, WareCallbackBegun)
  ELSE Gen_run_once(p, CbState(NewGen, s.ended), None)

\* reset without the finally clause that releases the handle.
Gen_reset_KeepsHandle(p, s, exc_class) ==
  IF s.gen.h # "none"
    THEN LET r == GenThrow(p, s.gen, exc_class) IN
         Done(CbState(r.g, s.ended), r.out)
    ELSE Done(s, Ok(None))

\* GeneratorWareCallback.reset
Gen_reset(p, s, exc_class) ==
  IF s.gen.h # "none"
    THEN LET r == GenThrow(p, s.gen, exc_class) IN
         Done(CbState(NoGen, s.ended), r.out)
    ELSE Done(s, Ok(None))

\* AsyncGeneratorWareCallback.run_once, awaited
AGen_run_once(p, s, arg) ==
  IF s.gen.h = "none" THEN Done(s, WareCallbackNotBegun)
  ELSE LET r == GenSend(p, s.gen, arg) IN
       IF r.kind = "stop"
         THEN Done(CbState(r.g, s.ended), AsyncWareCallbackEnded)
         ELSE Done(CbState(r.g, s.ended), r.out)

\* AsyncGeneratorWareCallback.begin: a plain function; the coroutine that
\* run_once(None) makes is returned, not awaited.
AGen_begin(p, s) ==
  IF s.gen.h # "none" THEN Done(s, WareCallbackBegun)
  ELSE Done(CbState(NewGen, s.ended), Ok(Coroutine))

\* AsyncGeneratorWareCallback.reset, awaited
AGen_reset(p, s) ==
  IF s.gen.h # "none"
    THEN LET r == AGenClose(p, s.gen) IN
         IF r.kind = "raise" /\ r.out.cls \notin {"StopAsyncIteration", "RuntimeError"}
           THEN Done(CbState(r.g, s.ended), r.out)
           ELSE Done(CbState(NoGen, s.ended), Ok(None))
    ELSE Done(s, Ok(None))

\* ------------------------------------------------------------------ state
VARIABLES
  wares,   \* WareManager.wares / Ware.callbacks: ware -> callback name -> [shape, proc]
  cbs,     \* ware -> callback name -> state of the callback object (_gen, _ended)
  last,    \* the host's last call: its arguments, what it returned or raised, and
           \* the calls it made to the host's functions, in order
  exceptions,  \* config.exceptions: exception class name -> registered class
  loader,      \* a call of Ware._load: its module, its schema and its outcome
  sys_path,    \* sys.path: a list of directories
  sys_modules, \* sys.modules: module name -> module object
  _module_path_registry,  \* utils._module_path_registry: module name -> directory
  held         \* the module objects the host holds: module object -> how many

\* The state of ware.py's loader and of utils.py.
loaderVars == <<loader, sys_path, sys_modules, _module_path_registry, held>>

vars == <<wares, cbs, last, exceptions, loaderVars>>

\* The module names and the directories the host imports from, and a module
\* object: its __name__, the directory of its file, and whether it was
\* imported with register_dir.
ModuleNames == {"m1", "m2"}
Dirs == {"D1", "D2"}
Module(name, dir, register_dir) == [name |-> name, dir |-> dir, reg |-> register_dir]
ModuleObjects == {Module(n, d, r) : n \in ModuleNames, d \in Dirs, r \in BOOLEAN}
\* No entry under a key of sys.modules or of _module_path_registry.
NoModule == Module("", "", FALSE)
NoDir == ""
\* sys.path as the interpreter starts with it.
InitialPath == <<"site-packages">>
\* No call of Ware._load.
NoLoad == [module |-> <<>>, ns_schema |-> <<>>, called |-> FALSE, out |-> <<>>]

\* Nothing was loaded or imported.
NothingLoaded ==
  /\ loader = NoLoad
  /\ sys_path = InitialPath
  /\ sys_modules = [n \in ModuleNames |-> NoModule]
  /\ _module_path_registry = [n \in ModuleNames |-> NoDir]
  /\ held = [m \in ModuleObjects |-> 0]

\* config.py: the keys of the registry, each registered to the class of
\* exceptions.py that has its name.
SignalNames ==
  {"WareMustEnd", "WareCallbackMustEnd", "WareCallbackEnded", "AsyncWareCallbackEnded",
   "WareCallbackBegun", "WareCallbackNotBegun", "InvalidWareStructure"}
DefaultExceptions == [n \in SignalNames |-> n]

\* A lookup that always answers the built-in class.
Registered_BuiltIn(reg, name) == name

\* config.exceptions.get(name, default), where default is the built-in class
\* of that name.
Registered(reg, name) == IF name \in DOMAIN reg THEN reg[name] ELSE name

\* An outcome with the class a callback method raises for it: the methods
\* look the class of each of their own exceptions up when they raise it (a
\* subclass has the bases of the class it replaces).
Raised(reg, out) ==
  IF out.ok \/ out.cls \notin SignalNames THEN out
  ELSE [out EXCEPT !.cls = Registered(reg, out.cls)]

\* warelib.init(exceptions_config): dict.update, or nothing for None.
NoConfig == <<>>
init(reg, exceptions_config) ==
  IF exceptions_config = NoConfig THEN reg
  ELSE [n \in DOMAIN reg \cup DOMAIN exceptions_config |->
          IF n \in DOMAIN exceptions_config THEN exceptions_config[n] ELSE reg[n]]

\* A Python dict as the sequence of its items in insertion order.
Item(k, v) == [k |-> k, v |-> v]
Keys(d) == [i \in 1..Len(d) |-> d[i].k]
KeySet(d) == {d[i].k : i \in 1..Len(d)}
Lookup(d, k) == (CHOOSE i \in 1..Len(d) : d[i].k = k)

\* One call of a host function or of a callback method made while a manager
\* operation runs.
Event(ev, w, c) == [ev |-> ev, w |-> w, c |-> c]

\* The w_names argument: None, or a sequence of names.
AllWares == [given |-> FALSE, names |-> <<>>]
Names(seq) == [given |-> TRUE, names |-> seq]

\* The callbacks of a ware that are in its dict, in dict order.
RECURSIVE CallbackItems(_, _)
CallbackItems(ware, i) ==
  IF i > Len(CbOrder) THEN <<>>
  ELSE (IF ware[CbOrder[i]].shape = "absent" THEN <<>> ELSE <<CbOrder[i]>>)
       \o CallbackItems(ware, i + 1)

\* WareManager._select_wares: the keys of the selected dict, in its order.
RECURSIVE SelectNames(_, _, _)
SelectNames(names, i, acc) ==
  IF i > Len(names) THEN acc
  ELSE SelectNames(names, i + 1,
         IF names[i] \in WareNames /\ names[i] \notin {acc[j] : j \in 1..Len(acc)}
           THEN Append(acc, names[i]) ELSE acc)

\* _select_wares that returns all wares whatever names are given.
_select_wares_IgnoresList(w_names) == WareOrder

\* _select_wares that filters self.wares by the names given.
_select_wares_RegistrationOrder(w_names) ==
  IF ~w_names.given THEN WareOrder
  ELSE LET Listed(w) == \E i \in 1..Len(w_names.names) : w_names.names[i] = w
       IN SelectSeq(WareOrder, Listed)

_select_wares(w_names) ==
  IF ~w_names.given THEN WareOrder ELSE SelectNames(w_names.names, 1, <<>>)

\* ------------------------------------------------------------ the manager
\* What one executor call does to a ware: the states of the ware's callbacks
\* after it, its outcome, and the calls it made.
Ran(ws, out, log) == [ws |-> ws, out |-> out, log |-> log]

\* The arguments of a manager operation.
Args(wc, val, bad) == [wc |-> wc, val |-> val, bad |-> bad]

\* WareManager.begin: executor
Exec_begin(a, w, ware, ws) ==
  LET cb == ware[a.wc] IN
  IF cb.shape = "absent" THEN Ran(ws, KeyError, <<>>)
  ELSE IF ~IsGeneratorWareCallback(cb.shape) \/ IsAsyncGeneratorWareCallback(cb.shape)
    THEN Ran(ws, TypeError("is not a GeneratorWareCallback"), <<>>)
  ELSE LET r == Gen_begin(cb.proc, ws[a.wc]) IN
       Ran([ws EXCEPT ![a.wc] = r.st], r.out, <<>>)

\* WareManager.abegin: executor
Exec_abegin(a, w, ware, ws) ==
  LET cb == ware[a.wc] IN
  IF cb.shape = "absent" THEN Ran(ws, KeyError, <<>>)
  ELSE IF ~IsAsyncGeneratorWareCallback(cb.shape)
    THEN Ran(ws, TypeError("is not an AsyncGeneratorWareCallback"), <<>>)
  ELSE LET r == AGen_begin(cb.proc, ws[a.wc]) IN
       Ran([ws EXCEPT ![a.wc] = r.st], r.out, <<>>)

\* WareManager.run_once: executor
Exec_run_once(a, w, ware, ws) ==
  LET cb == ware[a.wc] IN
  IF cb.shape = "absent" THEN Ran(ws, KeyError, <<>>)
  ELSE IF ~IsWareCallback(cb.shape) \/ IsGeneratorWareCallback(cb.shape)
          \/ IsAsyncWareCallback(cb.shape) \/ IsAsyncGeneratorWareCallback(cb.shape)
    THEN Ran(ws, TypeError("is not a simple WareCallback"), <<>>)
  ELSE LET r == Plain_run_once(cb.proc, ws[a.wc]) IN
       Ran([ws EXCEPT ![a.wc] = r.st], r.out, <<>>)

\* WareManager.gen_run_once: executor
Exec_gen_run_once(a, w, ware, ws) ==
  LET cb == ware[a.wc] IN
  IF cb.shape = "absent" THEN Ran(ws, KeyError, <<>>)
  ELSE IF ~IsGeneratorWareCallback(cb.shape) \/ IsAsyncGeneratorWareCallback(cb.shape)
    THEN Ran(ws, TypeError("is not a GeneratorWareCallback"), <<>>)
  ELSE LET r == IF ~is_active(ws[a.wc])
                  THEN Gen_begin(cb.proc, ws[a.wc])
                  ELSE Gen_run_once(cb.proc, ws[a.wc], a.val)
       IN Ran([ws EXCEPT ![a.wc] = r.st], r.out, <<>>)

\* WareManager.agen_run_once: executor
Exec_agen_run_once(a, w, ware, ws) ==
  LET cb == ware[a.wc] IN
  IF cb.shape = "absent" THEN Ran(ws, KeyError, <<>>)
  ELSE IF ~IsAsyncGeneratorWareCallback(cb.shape)
    THEN Ran(ws, TypeError("is not an AsyncGeneratorWareCallback"), <<>>)
  ELSE IF ~is_active(ws[a.wc])
    THEN LET r == AGen_begin(cb.proc, ws[a.wc]) IN
         Ran([ws EXCEPT ![a.wc] = r.st], IF r.out.ok THEN Ok(None) ELSE r.out, <<>>)
    ELSE LET r == AGen_run_once(cb.proc, ws[a.wc], a.val) IN
         Ran([ws EXCEPT ![a.wc] = r.st], r.out, <<>>)

\* Step 1 of the reset executors: self.resetter(ware), a host function that
\* raises for the wares in a.bad.
CallResetter(a, w, ws) ==
  Ran(ws, IF w \in a.bad THEN HostError ELSE Ok(None), <<Event("resetter", w, "")>>)

\* Step 2 of the reset executors: the loop over ware.callbacks.items(), from
\* item i on.  async_ is TRUE in areset, where an async generator callback is
\* reset by awaiting its reset(); reset() calls reset(exc_class) on it, which
\* takes no argument.
\* The loop of step 2 with a test that looks only at the handle: every
\* generator callback that holds a generator is reset.
RECURSIVE CloseGenerators_AnyHeld(_, _, _, _, _, _)
CloseGenerators_AnyHeld(async_, w, ware, items, i, acc) ==
  IF i > Len(items) \/ ~acc.out.ok THEN acc
  ELSE LET c == items[i]
           cb == ware[c]
           s == acc.ws[c]
       IN IF c # "reset" /\ IsGeneratorWareCallback(cb.shape) /\ s.gen.h # "none"
            THEN LET r == IF IsAsyncGeneratorWareCallback(cb.shape)
                            THEN IF async_ THEN AGen_reset(cb.proc, s)
                                 ELSE Done(s, TypeError("reset() takes 1 positional argument"))
                            ELSE Gen_reset(cb.proc, s, WareCallbackMustEnd)
                 IN CloseGenerators_AnyHeld(async_, w, ware, items, i + 1,
                      Ran([acc.ws EXCEPT ![c] = r.st],
                          IF r.out.ok THEN Ok(None) ELSE r.out,
                          Append(acc.log, Event("terminate", w, c))))
            ELSE CloseGenerators_AnyHeld(async_, w, ware, items, i + 1, acc)

RECURSIVE CloseGenerators(_, _, _, _, _, _)
CloseGenerators(async_, w, ware, items, i, acc) ==
  IF i > Len(items) \/ ~acc.out.ok THEN acc
  ELSE LET c == items[i]
           cb == ware[c]
           s == acc.ws[c]
       IN IF c # "reset" /\ IsGeneratorWareCallback(cb.shape)
             /\ ~has_ended(s) /\ is_active(s)
            THEN LET r == IF IsAsyncGeneratorWareCallback(cb.shape)
                            THEN IF async_ THEN AGen_reset(cb.proc, s)
                                 ELSE Done(s, TypeError("reset() takes 1 positional argument"))
                            ELSE Gen_reset(cb.proc, s, WareCallbackMustEnd)
                 IN CloseGenerators(async_, w, ware, items, i + 1,
                      Ran([acc.ws EXCEPT ![c] = r.st],
                          IF r.out.ok THEN Ok(None) ELSE r.out,
                          Append(acc.log, Event("terminate", w, c))))
            ELSE CloseGenerators(async_, w, ware, items, i + 1, acc)

\* reset_callback.run_once(), called with no argument.
ResetCallbackRunOnce(cb, s) ==
  CASE cb.shape = "plain" -> Plain_run_once(cb.proc, s)
    [] cb.shape = "async" -> Async_run_once(cb.proc, s)
    [] OTHER -> Done(s, TypeError("run_once() missing 1 required positional argument"))

\* Step 3 of the reset executors: the callback named reset, whose exceptions
\* (those that derive from Exception) are ignored.
CallResetCallback(w, ware, acc) ==
  IF ware["reset"].shape = "absent" THEN acc
  ELSE IF IsWareCallback(ware["reset"].shape)
    THEN LET r == ResetCallbackRunOnce(ware["reset"], acc.ws["reset"]) IN
         Ran([acc.ws EXCEPT !["reset"] = r.st],
             IF r.out.ok \/ ~r.out.base THEN Ok(None) ELSE r.out,
             acc.log \o <<Event("reset_callback", w, "reset")>>
               \o (IF r.out.ok THEN <<>> ELSE <<Event("reset_callback_raised", w, "reset")>>))
    ELSE Ran(acc.ws, TypeError("reset callback must be a simple WareCallback"), acc.log)

\* The reset executor with the resetter called after the generators are closed.
ResetBody_ResetterLate(async_, a, w, ware, ws) ==
  LET r1 == CloseGenerators(async_, w, ware, CallbackItems(ware, 1), 1, Ran(ws, Ok(None), <<>>)) IN
  IF ~r1.out.ok THEN r1
  ELSE LET r2 == CallResetter(a, w, r1.ws)
           r3 == Ran(r2.ws, r2.out, r1.log \o r2.log)
       IN IF ~r3.out.ok THEN r3 ELSE CallResetCallback(w, ware, r3)

\* The body of the executors of reset and areset: the three steps.
ResetBody(async_, a, w, ware, ws) ==
  LET r1 == CallResetter(a, w, ws) IN
  IF ~r1.out.ok THEN r1
  ELSE LET r2 == CloseGenerators(async_, w, ware, CallbackItems(ware, 1), 1, r1) IN
       IF ~r2.out.ok THEN r2 ELSE CallResetCallback(w, ware, r2)

\* WareManager.reset: executor
Exec_reset(a, w, ware, ws) == ResetBody(FALSE, a, w, ware, ws)

\* WareManager.areset: executor
Exec_areset(a, w, ware, ws) == ResetBody(TRUE, a, w, ware, ws)

\* The executor each operation defines, and the number of parameters it is
\* defined with.
Executor(op, a, w, ware, ws) ==
  CASE op = "begin" -> Exec_begin(a, w, ware, ws)
    [] op = "abegin" -> Exec_abegin(a, w, ware, ws)
    [] op = "run_once" -> Exec_run_once(a, w, ware, ws)
    [] op = "gen_run_once" -> Exec_gen_run_once(a, w, ware, ws)
    [] op = "agen_run_once" -> Exec_agen_run_once(a, w, ware, ws)
    [] op = "reset" -> Exec_reset(a, w, ware, ws)
    [] op = "areset" -> Exec_areset(a, w, ware, ws)

ExecutorArity(op) == IF op \in {"agen_run_once", "areset"} THEN 2 ELSE 1

\* The call executor(name, ware) of _execute_on_wares and _aexecute_on_wares:
\* Python raises TypeError, before the body runs, when the executor was not
\* defined with two parameters.
CallExecutor(op, a, w, ware, ws) ==
  IF ExecutorArity(op) # 2
    THEN Ran(ws, TypeError("executor() takes 1 positional argument but 2 were given"), <<>>)
    ELSE Executor(op, a, w, ware, ws)

\* The result of a batch so far: the callbacks' states, the two dicts, the
\* calls made, and the exception that left the loop, if one did.
Batch(c, successes, errors, log, out) ==
  [cbs |-> c, successes |-> successes, errors |-> errors, log |-> log, out |-> out]

\* Collect with an except clause that records nothing.
Collect_ErrorsDropped(acc, w, r) ==
  LET c == [acc.cbs EXCEPT ![w] = r.ws]
      log == acc.log \o <<Event("executor", w, "")>> \o r.log
  IN IF r.out.ok
       THEN Batch(c, Append(acc.successes, Item(w, r.out.v)), acc.errors, log, acc.out)
       ELSE Batch(c, acc.successes, acc.errors, log, acc.out)

\* Collect over callback objects that all wares share.
Collect_SharedCallbacks(acc, w, r) ==
  LET c == [x \in DOMAIN acc.cbs |-> r.ws]
      log == acc.log \o <<Event("executor", w, "")>> \o r.log
  IN IF r.out.ok
       THEN Batch(c, Append(acc.successes, Item(w, r.out.v)), acc.errors, log, acc.out)
     ELSE IF ~r.out.base
       THEN Batch(c, acc.successes, Append(acc.errors, Item(w, r.out)), log, acc.out)
     ELSE Batch(c, acc.successes, acc.errors, log, r.out)

\* The try/except of the loop: an outcome goes to successes, an Exception to
\* errors, and any other exception leaves the loop.
Collect(acc, w, r) ==
  LET c == [acc.cbs EXCEPT ![w] = r.ws]
      log == acc.log \o <<Event("executor", w, "")>> \o r.log
  IN IF r.out.ok
       THEN Batch(c, Append(acc.successes, Item(w, r.out.v)), acc.errors, log, acc.out)
     ELSE IF ~r.out.base
       THEN Batch(c, acc.successes, Append(acc.errors, Item(w, r.out)), log, acc.out)
     ELSE Batch(c, acc.successes, acc.errors, log, r.out)

\* WareManager._execute_on_wares and _aexecute_on_wares: the loop over the
\* selected wares, from the i-th on.
RECURSIVE _execute_on_wares(_, _, _, _, _, _)
_execute_on_wares(op, a, ws, sel, i, acc) ==
  IF i > Len(sel) \/ ~acc.out.ok THEN acc
  ELSE _execute_on_wares(op, a, ws, sel, i + 1,
         Collect(acc, sel[i], CallExecutor(op, a, sel[i], ws[sel[i]], acc.cbs[sel[i]])))

\* A manager operation as a whole.
RunBatch(op, a, w_names, ws, c) ==
  _execute_on_wares(op, a, ws, _select_wares(w_names), 1, Batch(c, <<>>, <<>>, <<>>, Ok(None)))

\* The record of a call of the host.
Call(op, w, a, w_names, out, successes, errors, log) ==
  [op |-> op, w |-> w, wc |-> a.wc, val |-> a.val, bad |-> a.bad, names |-> w_names,
   out |-> out, successes |-> successes, errors |-> errors, log |-> log]

\* ----------------------------------------------------------------- inputs
Cb(shape, proc) == [shape |-> shape, proc |-> proc]
Absent == Cb("absent", NoProc)
Forever(onThrow) == [n |-> 0, forever |-> TRUE, fail |-> FALSE, onThrow |-> onThrow]
Ware(tick, draw, reset) == [c \in CbNames |->
  CASE c = "tick" -> tick [] c = "draw" -> draw [] c = "reset" -> reset]

\* The wares a manager is built from: ware A has any kind of tick callback,
\* ware B one of a few.
TickCallbacks ==
  {Cb("gen", p) : p \in Procs} \cup {Cb("agen", p) : p \in Procs}
  \cup {Cb("plain", NoProc), Cb("plain", FailProc), Cb("async", NoProc),
        Cb("other", NoProc), Absent}
DrawCallbacks == {Absent, Cb("gen", Forever("return"))}
ResetCallbacks == {Absent, Cb("plain", NoProc), Cb("plain", FailProc), Cb("other", NoProc)}
WaresA ==
  {Ware(t, Absent, r) : t \in TickCallbacks, r \in {Absent, Cb("plain", NoProc)}}
  \cup {Ware(t, Absent, r) : t \in {Cb("plain", NoProc), Cb("gen", Forever("return"))},
                              r \in ResetCallbacks}
  \cup {Ware(Cb(sh, Forever(th)), d, Cb("plain", FailProc)) :
          sh \in {"gen", "agen"}, th \in {"unhandled", "return"}, d \in DrawCallbacks}
WaresB ==
  {Ware(Cb("gen", Forever("unhandled")), Absent, Absent),
   Ware(Cb("agen", Forever("unhandled")), Absent, Absent),
   Ware(Cb("plain", NoProc), Absent, Cb("plain", FailProc))}

\* The arguments the host passes.
NameLists == {AllWares, Names(<<"B", AbsentName, "A", "B">>), Names(<<"A">>)}
BadSets == {{}, {"A"}}
NoArgs == Args("", None, {})

\* ------------------------------------------------------------------ actions
\* No call of the host is under way, and the result of the last one is gone.
Idle == Call("idle", "", NoArgs, AllWares, Ok(None), <<>>, <<>>, <<>>)

Init ==
  /\ wares \in {[w \in WareNames |-> IF w = "A" THEN a ELSE b] : a \in WaresA, b \in WaresB}
  /\ cbs = [w \in WareNames |-> [c \in CbNames |-> CbInit]]
  /\ last = Idle
  /\ exceptions = DefaultExceptions
  /\ NothingLoaded

\* A never-ending process is advanced at most MaxPos times.
PosBounded(c) == \A w \in WareNames, n \in CbNames : c[w][n].gen.pc <= MaxPos

\* The record of a manager operation that ran the batch r.
Returned(op, a, w_names, r) == Call(op, "", a, w_names, r.out, r.successes, r.errors, r.log)

\* WareManager.begin
Begin == \E n \in NameLists :
  LET a == Args("tick", None, {})
      r == RunBatch("begin", a, n, wares, cbs)
  IN /\ last = Idle
     /\ PosBounded(r.cbs)
     /\ cbs' = r.cbs
     /\ last' = Returned("begin", a, n, r)
     /\ UNCHANGED <<wares, exceptions, loaderVars>>

\* WareManager.abegin
ABegin == \E n \in NameLists :
  LET a == Args("tick", None, {})
      r == RunBatch("abegin", a, n, wares, cbs)
  IN /\ last = Idle
     /\ PosBounded(r.cbs)
     /\ cbs' = r.cbs
     /\ last' = Returned("abegin", a, n, r)
     /\ UNCHANGED <<wares, exceptions, loaderVars>>

\* WareManager.run_once
RunOnce == \E wc \in {"tick", "reset"}, n \in NameLists :
  LET a == Args(wc, None, {})
      r == RunBatch("run_once", a, n, wares, cbs)
  IN /\ last = Idle
     /\ PosBounded(r.cbs)
     /\ cbs' = r.cbs
     /\ last' = Returned("run_once", a, n, r)
     /\ UNCHANGED <<wares, exceptions, loaderVars>>

\* WareManager.gen_run_once
GenRunOnce == \E v \in SendVals, n \in NameLists :
  LET a == Args("tick", v, {})
      r == RunBatch("gen_run_once", a, n, wares, cbs)
  IN /\ last = Idle
     /\ PosBounded(r.cbs)
     /\ cbs' = r.cbs
     /\ last' = Returned("gen_run_once", a, n, r)
     /\ UNCHANGED <<wares, exceptions, loaderVars>>

\* WareManager.agen_run_once
AGenRunOnce == \E v \in SendVals, n \in NameLists :
  LET a == Args("tick", v, {})
      r == RunBatch("agen_run_once", a, n, wares, cbs)
  IN /\ last = Idle
     /\ PosBounded(r.cbs)
     /\ cbs' = r.cbs
     /\ last' = Returned("agen_run_once", a, n, r)
     /\ UNCHANGED <<wares, exceptions, loaderVars>>

\* WareManager.reset
Reset == \E bad \in BadSets, n \in NameLists :
  LET a == Args("", None, bad)
      r == RunBatch("reset", a, n, wares, cbs)
  IN /\ last = Idle
     /\ PosBounded(r.cbs)
     /\ cbs' = r.cbs
     /\ last' = Returned("reset", a, n, r)
     /\ UNCHANGED <<wares, exceptions, loaderVars>>

\* WareManager.areset
AReset == \E bad \in BadSets, n \in NameLists :
  LET a == Args("", None, bad)
      r == RunBatch("areset", a, n, wares, cbs)
  IN /\ last = Idle
     /\ PosBounded(r.cbs)
     /\ cbs' = r.cbs
     /\ last' = Returned("areset", a, n, r)
     /\ UNCHANGED <<wares, exceptions, loaderVars>>

\* The record of a call the host makes of a method of one callback object.
Called(op, w, c, v, r) ==
  Call(op, w, Args(c, v, {}), AllWares, Raised(exceptions, r.out), <<>>, <<>>, <<>>)

\* The callbacks that have begin, run_once(arg) and reset: the generator ones.
GeneratorCallbacks == {wc \in WareNames \X CbNames :
  IsGeneratorWareCallback(wares[wc[1]][wc[2]].shape)}

\* callback.begin() called by the host; the coroutine an async generator
\* callback returns is awaited by the host, or dropped.
HostBegin(cb, s, awaited) ==
  IF IsAsyncGeneratorWareCallback(cb.shape)
    THEN LET r == AGen_begin(cb.proc, s) IN
         IF r.out.ok /\ awaited THEN AGen_run_once(cb.proc, r.st, None) ELSE r
    ELSE Gen_begin(cb.proc, s)

CallbackBegin == \E wc \in GeneratorCallbacks, awaited \in BOOLEAN :
  LET w == wc[1]
      c == wc[2]
      r == HostBegin(wares[w][c], cbs[w][c], awaited)
  IN /\ last = Idle
     /\ awaited \/ IsAsyncGeneratorWareCallback(wares[w][c].shape)
     /\ PosBounded([cbs EXCEPT ![w][c] = r.st])
     /\ cbs' = [cbs EXCEPT ![w][c] = r.st]
     /\ last' = Called("callback.begin", w, c, None, r)
     /\ UNCHANGED <<wares, exceptions, loaderVars>>

\* callback.run_once(v) called by the host, and awaited when the callback is
\* an async generator.
HostRunOnce(cb, s, v) ==
  IF IsAsyncGeneratorWareCallback(cb.shape)
    THEN AGen_run_once(cb.proc, s, v)
    ELSE Gen_run_once(cb.proc, s, v)

CallbackRunOnce == \E wc \in GeneratorCallbacks, v \in SendVals :
  LET w == wc[1]
      c == wc[2]
      r == HostRunOnce(wares[w][c], cbs[w][c], v)
  IN /\ last = Idle
     /\ PosBounded([cbs EXCEPT ![w][c] = r.st])
     /\ cbs' = [cbs EXCEPT ![w][c] = r.st]
     /\ last' = Called("callback.run_once", w, c, v, r)
     /\ UNCHANGED <<wares, exceptions, loaderVars>>

\* callback.reset() called by the host, and awaited when the callback is an
\* async generator.
HostReset(cb, s) ==
  IF IsAsyncGeneratorWareCallback(cb.shape)
    THEN AGen_reset(cb.proc, s)
    ELSE Gen_reset(cb.proc, s, WareCallbackMustEnd)

CallbackReset == \E wc \in GeneratorCallbacks :
  LET w == wc[1]
      c == wc[2]
      r == HostReset(wares[w][c], cbs[w][c])
  IN /\ last = Idle
     /\ cbs' = [cbs EXCEPT ![w][c] = r.st]
     /\ last' = Called("callback.reset", w, c, None, r)
     /\ UNCHANGED <<wares, exceptions, loaderVars>>

\* The host has the result of its call and goes on.
Return ==
  /\ last # Idle
  /\ last' = Idle
  /\ UNCHANGED <<wares, cbs, exceptions, loaderVars>>

Next ==
  \/ Begin
  \/ ABegin
  \/ RunOnce
  \/ GenRunOnce
  \/ AGenRunOnce
  \/ Reset
  \/ AReset
  \/ CallbackBegin
  \/ CallbackRunOnce
  \/ CallbackReset
  \/ Return

Spec == Init /\ [][Next]_vars

\* ------------------------------------------------- the exception registry
\* The host substitutes its own exception classes with warelib.init, before
\* or after it creates callbacks, and calls the callbacks' methods.
FiniteProc(n) == [n |-> n, forever |-> FALSE, fail |-> FALSE, onThrow |-> "unhandled"]

\* The configurations the host passes to init: None, or a dict of some names.
InitConfigs ==
  {NoConfig,
   ("WareCallbackBegun" :> "BrandBegun"),
   ("WareCallbackEnded" :> "BrandEnded") @@ ("AsyncWareCallbackEnded" :> "BrandAsyncEnded"),
   ("WareCallbackNotBegun" :> "BrandNotBegun") @@ ("WareCallbackBegun" :> "OtherBegun")}

\* Ware A has a generator and an async generator callback from the start;
\* init was not called.
SigInit ==
  /\ wares = [w \in WareNames |->
               IF w = "A" THEN Ware(Cb("gen", FiniteProc(1)), Cb("agen", FiniteProc(1)), Absent)
               ELSE Ware(Absent, Absent, Absent)]
  /\ cbs = [w \in WareNames |-> [c \in CbNames |-> CbInit]]
  /\ last = Idle
  /\ exceptions = DefaultExceptions
  /\ NothingLoaded

\* warelib.init(cfg)
InitCall == \E cfg \in InitConfigs :
  /\ last = Idle
  /\ exceptions' = init(exceptions, cfg)
  /\ last' = Call("init", "", Args("", cfg, {}), AllWares, Ok(None), <<>>, <<>>, <<>>)
  /\ UNCHANGED <<wares, cbs, loaderVars>>

\* GeneratorWareCallback(f) or AsyncGeneratorWareCallback(f): ware B gets its
\* callback once init has substituted a class.
CreateCallback == \E shape \in {"gen", "agen"}, n \in 0..1 :
  /\ last = Idle
  /\ exceptions # DefaultExceptions
  /\ wares["B"]["tick"] = Absent
  /\ wares' = [wares EXCEPT !["B"]["tick"] = Cb(shape, FiniteProc(n))]
  /\ last' = Call("create", "B", Args("tick", None, {}), AllWares, Ok(None), <<>>, <<>>, <<>>)
  /\ UNCHANGED <<cbs, exceptions, loaderVars>>

SigNext ==
  \/ InitCall
  \/ CreateCallback
  \/ CallbackBegin
  \/ CallbackRunOnce
  \/ CallbackReset
  \/ Return

SpecSig == SigInit /\ [][SigNext]_vars

\* ------------------------------------------------------------- the loader
\* ware.py: Ware._load(module, ns_schema) checks each name of the schema
\* against the module's namespace and sorts the names into callbacks and
\* globals.
SchemaNames == {"speed", "tick"}

\* Python objects: an instance of a class, a class, or a function; truthy is
\* what bool() gives for an instance.
Instance(cls, truthy) == [kind |-> "object", name |-> cls, truthy |-> truthy]
Class(name) == [kind |-> "type", name |-> name, truthy |-> TRUE]
Function(name) == [kind |-> "function", name |-> name, truthy |-> TRUE]

\* issubclass(cls, base) for the classes at hand.
IsSubclass(cls, base) ==
  \/ cls = base
  \/ cls = "GeneratorWareCallback" /\ base = "WareCallback"
\* isinstance(x, class)
IsInstance(x, base) == x.kind = "object" /\ IsSubclass(x.name, base)
\* isinstance(x, type), callable(x)
IsType(x) == x.kind = "type"
IsCallable(x) ==
  \/ x.kind \in {"type", "function"}
  \/ x.kind = "object" /\ IsSubclass(x.name, "WareCallback")

\* v(mval) for a schema value v, as far as _load looks at it: whether the
\* result is truthy, or the call raises TypeError.  int(x) is x,
\* WareCallback(f) and GeneratorWareCallback(f) are new objects, callable is
\* the built-in, and positive is `lambda x: x > 0`.
Validate(v, mval) ==
  CASE v = Class("int") -> IF mval.truthy THEN "truthy" ELSE "falsy"
    [] v \in {Class("WareCallback"), Class("GeneratorWareCallback")} -> "truthy"
    [] v = Function("callable") -> IF IsCallable(mval) THEN "truthy" ELSE "falsy"
    [] v = Function("positive") ->
         IF mval.name # "int" THEN "TypeError"
         ELSE IF mval.truthy THEN "truthy" ELSE "falsy"

\* What _load returns or raises.
Loaded(globals, callbacks) == [ok |-> TRUE, globals |-> globals, callbacks |-> callbacks, k |-> ""]
InvalidWareStructure(k) == [ok |-> FALSE, globals |-> <<>>, callbacks |-> <<>>, k |-> k]

\* The last statement of the loop: it tests and stores v,
\* the value of the schema.
StoreItem(ware, k, v, mval) ==
  IF IsInstance(v, "WareCallback") \/ IsInstance(v, "GeneratorWareCallback")
    THEN Loaded(ware.globals, Append(ware.callbacks, Item(k, v)))
    ELSE Loaded(Append(ware.globals, Item(k, v)), ware.callbacks)

\* The loop of _load from the i-th item of ns_schema on; module is
\* module.__dict__, a function on the names the module defines.
RECURSIVE LoadItems(_, _, _, _)
LoadItems(module, ns_schema, i, ware) ==
  IF i > Len(ns_schema) THEN ware
  ELSE LET k == ns_schema[i].k
           v == ns_schema[i].v
       IN IF k \notin DOMAIN module THEN InvalidWareStructure(k)
          ELSE LET mval == module[k] IN
               IF IsType(v) /\ ~IsInstance(mval, v.name) THEN InvalidWareStructure(k)
               ELSE IF IsCallable(v) /\ Validate(v, mval) # "truthy" THEN InvalidWareStructure(k)
               ELSE LoadItems(module, ns_schema, i + 1, StoreItem(ware, k, v, mval))

\* Ware._load
_load(module, ns_schema) == LoadItems(module, ns_schema, 1, Loaded(<<>>, <<>>))

\* The modules and the schemas the host loads.
SpeedValues == {Instance("int", FALSE), Instance("int", TRUE), Instance("WareCallback", TRUE)}
TickValues ==
  {Instance("WareCallback", TRUE), Instance("GeneratorWareCallback", TRUE), Instance("int", TRUE)}
ModuleDicts ==
  {<<>>}
  \cup {[k \in {"speed"} |-> s] : s \in SpeedValues}
  \cup {[k \in {"tick"} |-> c] : c \in TickValues}
  \cup {[k \in SchemaNames |-> IF k = "speed" THEN s ELSE c] : s \in SpeedValues, c \in TickValues}
SchemaValues ==
  {Class("int"), Class("WareCallback"), Class("GeneratorWareCallback"),
   Function("callable"), Function("positive")}
Schemas ==
  {<<>>}
  \cup {<<Item(k, v)>> : k \in SchemaNames, v \in SchemaValues}
  \cup {<<Item(ks[1], v1), Item(ks[2], v2)>> :
          ks \in {<<"speed", "tick">>, <<"tick", "speed">>},
          v1 \in SchemaValues, v2 \in SchemaValues}

LoadInit ==
  /\ wares = [w \in WareNames |-> Ware(Absent, Absent, Absent)]
  /\ cbs = [w \in WareNames |-> [c \in CbNames |-> CbInit]]
  /\ last = Idle
  /\ exceptions = DefaultExceptions
  /\ loader \in {[module |-> m, ns_schema |-> s, called |-> FALSE, out |-> <<>>] :
                   m \in ModuleDicts, s \in Schemas}
  /\ sys_path = InitialPath
  /\ sys_modules = [n \in ModuleNames |-> NoModule]
  /\ _module_path_registry = [n \in ModuleNames |-> NoDir]
  /\ held = [m \in ModuleObjects |-> 0]

\* Ware._load(module, ns_schema) called by the host.
Load ==
  /\ ~loader.called
  /\ loader' = [loader EXCEPT !.called = TRUE, !.out = _load(loader.module, loader.ns_schema)]
  /\ UNCHANGED <<wares, cbs, last, exceptions, sys_path, sys_modules, _module_path_registry, held>>

LoadNext == Load

SpecLoad == LoadInit /\ [][LoadNext]_vars

\* ------------------------------------------------------- module imports
\* utils.py: import_module_from_path and unimport_module over sys.path,
\* sys.modules and _module_path_registry.
InPath(path, dir) == \E i \in 1..Len(path) : path[i] = dir

\* list.remove(x): the list without the first x.
RECURSIVE ListRemove(_, _)
ListRemove(list, x) ==
  IF list = <<>> THEN <<>>
  ELSE IF Head(list) = x THEN Tail(list)
  ELSE <<Head(list)>> \o ListRemove(Tail(list), x)

\* The state of utils.py and of the interpreter's import system.
ImportState(path, modules, registry) ==
  [path |-> path, modules |-> modules, registry |-> registry]

\* import_module_from_path(module_name, file_path, register_dir) for a file
\* in module_dir; exec_ok says whether executing the module's code returns
\* (the module is then returned) or raises.
import_module_from_path(st, module_name, module_dir, register_dir, exec_ok) ==
  LET registers == register_dir /\ ~InPath(st.path, module_dir)
      path == IF registers THEN <<module_dir>> \o st.path ELSE st.path
      registry == IF registers THEN [st.registry EXCEPT ![module_name] = module_dir]
                  ELSE st.registry
      module == Module(module_name, module_dir, register_dir)
  IN IF exec_ok
       THEN ImportState(path, [st.modules EXCEPT ![module_name] = module], registry)
       ELSE ImportState(path, [st.modules EXCEPT ![module_name] = NoModule], registry)

\* unimport_module(module)
unimport_module(st, module) ==
  LET modules == [st.modules EXCEPT ![module.name] = NoModule] IN
  IF st.registry[module.name] # NoDir
    THEN ImportState(ListRemove(st.path, st.registry[module.name]), modules,
                     [st.registry EXCEPT ![module.name] = NoDir])
    ELSE ImportState(st.path, modules, st.registry)

\* How many module objects the host holds.
RECURSIVE HeldCount(_, _)
HeldCount(h, ms) ==
  IF ms = {} THEN 0
  ELSE LET m == CHOOSE x \in ms : TRUE IN h[m] + HeldCount(h, ms \ {m})

ImportInit ==
  /\ wares = [w \in WareNames |-> Ware(Absent, Absent, Absent)]
  /\ cbs = [w \in WareNames |-> [c \in CbNames |-> CbInit]]
  /\ last = Idle
  /\ exceptions = DefaultExceptions
  /\ NothingLoaded

\* The host imports a module; it holds the module when the import returns.
ImportModule == \E n \in ModuleNames, d \in Dirs, register_dir \in BOOLEAN, exec_ok \in BOOLEAN :
  LET st == import_module_from_path(
              ImportState(sys_path, sys_modules, _module_path_registry),
              n, d, register_dir, exec_ok)
      m == Module(n, d, register_dir)
  IN /\ HeldCount(held, ModuleObjects) < MaxLoaded
     /\ sys_path' = st.path
     /\ sys_modules' = st.modules
     /\ _module_path_registry' = st.registry
     /\ held' = IF exec_ok THEN [held EXCEPT ![m] = @ + 1] ELSE held
     /\ UNCHANGED <<wares, cbs, last, exceptions, loader>>

\* The host releases a module it holds (Ware.__del__ calls unimport_module).
UnimportModule == \E m \in ModuleObjects :
  LET st == unimport_module(ImportState(sys_path, sys_modules, _module_path_registry), m)
  IN /\ held[m] > 0
     /\ sys_path' = st.path
     /\ sys_modules' = st.modules
     /\ _module_path_registry' = st.registry
     /\ held' = [held EXCEPT ![m] = @ - 1]
     /\ UNCHANGED <<wares, cbs, last, exceptions, loader>>

ImportNext ==
  \/ ImportModule
  \/ UnimportModule

SpecImport == ImportInit /\ [][ImportNext]_vars

\* ----------------------------------------------------------------- claims
ManagerOps == {"begin", "abegin", "run_once", "gen_run_once", "agen_run_once", "reset", "areset"}
ResetOps == {"reset", "areset"}

\* The names an operation was asked to work on that are wares of the manager.
TargetedPresent(w_names) ==
  IF w_names.given
    THEN {w_names.names[i] : i \in 1..Len(w_names.names)} \cap WareNames
    ELSE WareNames

InDict(d, k) == \E i \in 1..Len(d) : d[i].k = k
ValueOf(d, k) == d[Lookup(d, k)].v
\* The positions in a log of the events ev of ware w.
Positions(log, ev, w) == {i \in 1..Len(log) : log[i].ev = ev /\ log[i].w = w}

Tick(w) == wares[w]["tick"]
\* A synchronous generator callback whose process yields n values and returns.
YieldsThenReturns(cb, n) ==
  cb.shape = "gen" /\ ~cb.proc.forever /\ ~cb.proc.fail /\ cb.proc.n = n
NeverCompletes(cb) == cb.shape = "gen" /\ cb.proc.forever

\* C1: when a manager batch operation returns, the keys of successes and of
\* errors are disjoint, no key is repeated, and together they are exactly the
\* targeted ware names that are in the registry.
C1_Partition ==
  (last.op \in ManagerOps /\ last.out.ok) =>
    /\ KeySet(last.successes) \cap KeySet(last.errors) = {}
    /\ KeySet(last.successes) \cup KeySet(last.errors) = TargetedPresent(last.names)
    /\ Len(last.successes) + Len(last.errors) = Cardinality(TargetedPresent(last.names))

C1_Witness ==
  /\ last.op = "areset" /\ last.out.ok /\ last.names.given
  /\ AbsentName \in {last.names.names[i] : i \in 1..Len(last.names.names)}
  /\ last.successes # <<>> /\ last.errors # <<>>

\* C2: a manager batch operation always returns normally, calls the
\* executor for every targeted ware and reports every targeted ware,
\* whatever fails while one ware is processed.
C2_Isolation ==
  last.op \in ManagerOps =>
    /\ last.out.ok
    /\ \A w \in TargetedPresent(last.names) :
         /\ Positions(last.log, "executor", w) # {}
         /\ InDict(last.successes, w) \/ InDict(last.errors, w)

Lockstep(j) ==
  \A w \in {"A", "B"} :
    cbs[w]["tick"] = IF j = 0 THEN CbInit ELSE CbState(Gen("suspended", j), FALSE)

\* C3: gen_run_once("tick") on all wares, where A's tick yields k values and
\* returns FinalValue, B's tick never completes, and both have produced j
\* values in lockstep: for j < k both wares are in successes with value j+1,
\* and for j = k A is in errors with WareCallbackEnded carrying FinalValue and
\* B is in successes with value k+1.
C3_StepScenario ==
  [][\A k \in 1..MaxYield, j \in 0..MaxYield :
       ( /\ last'.op = "gen_run_once" /\ ~last'.names.given
         /\ YieldsThenReturns(Tick("A"), k) /\ NeverCompletes(Tick("B"))
         /\ j <= k /\ Lockstep(j) )
       => IF j < k
            THEN /\ last'.successes = <<Item("A", Yielded(j + 1)), Item("B", Yielded(j + 1))>>
                 /\ last'.errors = <<>>
            ELSE /\ last'.errors = <<Item("A", WareCallbackEnded(FinalValue))>>
                 /\ last'.successes = <<Item("B", Yielded(k + 1))>>
    ]_vars

NotBegunGenerator(w) ==
  /\ Tick(w).shape = "gen" /\ (Tick(w).proc.forever \/ Tick(w).proc.n >= 1)
  /\ cbs[w]["tick"] = CbInit

\* C4: begin("tick") where the tick callback of every targeted ware is a
\* synchronous generator callback that was not begun and whose process yields
\* a value: every targeted ware is in successes with the first value of its
\* process, and its callback is active.
C4_BeginBegins ==
  [][( /\ last'.op = "begin"
       /\ \A w \in TargetedPresent(last'.names) : NotBegunGenerator(w) )
     => \A w \in TargetedPresent(last'.names) :
          /\ InDict(last'.successes, w)
          /\ ValueOf(last'.successes, w) = Yielded(1)
          /\ is_active(cbs'[w]["tick"])
    ]_vars

BeginCallOn(w, c) == last'.op = "callback.begin" /\ last'.w = w /\ last'.wc = c
ResetCallOn(w, c) ==
  \/ last'.op = "callback.reset" /\ last'.w = w /\ last'.wc = c
  \/ last'.op \in ResetOps /\ \E i \in 1..Len(last'.log) : last'.log[i] = Event("terminate", w, c)
Held(s) == s.gen.h # "none"

\* C5: a begin call on a generator callback that holds a process, as every
\* callback does from a begin call on until it is reset, fails with
\* WareCallbackBegun and leaves _gen (the process and its position) and
\* _ended as they were.
C5_SecondBegin ==
  [][\A wc \in GeneratorCallbacks :
       LET w == wc[1]
           c == wc[2]
       IN /\ BeginCallOn(w, c) => Held(cbs'[w][c])
          /\ (Held(cbs[w][c]) /\ ~ResetCallOn(w, c)) => Held(cbs'[w][c])
          /\ (BeginCallOn(w, c) /\ Held(cbs[w][c])) =>
               (last'.out = WareCallbackBegun /\ cbs'[w][c] = cbs[w][c])
    ]_vars

C5_Witness ==
  /\ last.op = "callback.begin" /\ last.out = WareCallbackBegun
  /\ wares[last.w][last.wc].shape = "gen"
  /\ cbs[last.w][last.wc] = CbState(Gen("suspended", 1), FALSE)

\* C6: for a synchronous generator callback whose process yields N values
\* and returns FinalValue, an advancing call (begin with no process held, or
\* run_once) made after j values returns value j+1 while j < N; made after N
\* values it raises WareCallbackEnded carrying FinalValue and the callback
\* has ended; made after that it raises again and leaves is_active and
\* has_ended as they were.
C6_StepSequence ==
  [][\A wc \in GeneratorCallbacks, N \in 0..MaxYield :
       LET w == wc[1]
           c == wc[2]
           s == cbs[w][c]
           t == cbs'[w][c]
           advancing ==
             /\ last'.w = w /\ last'.wc = c
             /\ \/ last'.op = "callback.begin" /\ ~Held(s)
                \/ last'.op = "callback.run_once" /\ Held(s)
       IN (YieldsThenReturns(wares[w][c], N) /\ advancing) =>
            IF s.gen.h = "finished"
              THEN /\ ~last'.out.ok
                   /\ is_active(t) = is_active(s)
                   /\ has_ended(t) = has_ended(s)
            ELSE IF s.gen.pc < N
              THEN /\ last'.out = Ok(Yielded(s.gen.pc + 1))
                   /\ t.gen = Gen("suspended", s.gen.pc + 1)
            ELSE /\ last'.out = WareCallbackEnded(FinalValue)
                 /\ has_ended(t) /\ ~is_active(t)
    ]_vars

C6_Witness ==
  /\ last.op = "callback.run_once" /\ last.out = WareCallbackEnded(FinalValue)
  /\ YieldsThenReturns(wares[last.w][last.wc], MaxYield)
  /\ cbs[last.w][last.wc] = CbState(Gen("finished", MaxYield), TRUE)

\* C7: in the calls a reset or areset makes for one ware, the resetter is
\* called at most once, every termination of a callback and every call of
\* the reset callback comes after the resetter call, and the reset callback
\* is called after every termination.
C7_ResetOrder ==
  last.op \in ResetOps =>
    \A w \in WareNames :
      LET R == Positions(last.log, "resetter", w)
          T == Positions(last.log, "terminate", w)
          C == Positions(last.log, "reset_callback", w)
      IN /\ Cardinality(R) <= 1
         /\ \A i \in T \cup C : \E r \in R : r < i
         /\ \A i \in T, j \in C : i < j

C7_Witness ==
  /\ last.op = "areset"
  /\ \E w \in WareNames :
       /\ Positions(last.log, "resetter", w) # {}
       /\ Cardinality(Positions(last.log, "terminate", w)) = 2
       /\ Positions(last.log, "reset_callback", w) # {}

\* C8: reset() on a ware none of whose callbacks was begun calls the
\* resetter once for it, terminates nothing, and calls its reset callback
\* once when it has one.
C8_ResetUntouched ==
  [][last'.op = "reset" =>
       \A w \in TargetedPresent(last'.names) :
         (\A c \in CbNames : cbs[w][c] = CbInit) =>
           /\ Cardinality(Positions(last'.log, "resetter", w)) = 1
           /\ Positions(last'.log, "terminate", w) = {}
           /\ (wares[w]["reset"].shape = "plain" /\ w \notin last'.bad) =>
                Cardinality(Positions(last'.log, "reset_callback", w)) = 1
    ]_vars

\* C9: reset() and areset() report a ware whose reset callback raises, and
\* for which nothing else fails, in successes and not in errors.
C9_ResetCallbackSwallowed ==
  [][last'.op \in ResetOps =>
       \A w \in TargetedPresent(last'.names) :
         ( /\ wares[w]["reset"] = Cb("plain", FailProc)
           /\ w \notin last'.bad
           /\ \A c \in CbNames : ~is_active(cbs[w][c]) )
         => (InDict(last'.successes, w) /\ ~InDict(last'.errors, w))
    ]_vars

\* C10: run_once("tick") puts a targeted ware whose tick is a generator
\* callback in errors with a TypeError, and a targeted ware whose tick is a
\* plain callback that returns in successes with what the callback returned.
C10_ShapeMismatch ==
  (last.op = "run_once" /\ last.wc = "tick") =>
    \A w \in TargetedPresent(last.names) :
      /\ IsGeneratorWareCallback(Tick(w).shape) =>
           (InDict(last.errors, w) /\ ValueOf(last.errors, w).cls = "TypeError")
      /\ Tick(w) = Cb("plain", NoProc) =>
           (InDict(last.successes, w) /\ ValueOf(last.successes, w) = PlainResult)

CallOn(op, w, c) == last'.op = op /\ last'.w = w /\ last'.wc = c

\* C11: a generator callback that is active holds a process handle, and one
\* that has ended holds none.
C11_HandleInvariant ==
  \A wc \in GeneratorCallbacks :
    LET s == cbs[wc[1]][wc[2]]
    IN /\ is_active(s) => Held(s)
       /\ has_ended(s) => ~Held(s)

\* C12: reset() on a synchronous generator callback that was not started, or
\* that has ended, returns without raising and leaves _gen and _ended of
\* every callback as they were.
C12_ResetNoOp ==
  [][\A wc \in GeneratorCallbacks :
       LET w == wc[1]
           c == wc[2]
           s == cbs[w][c]
       IN ( /\ CallOn("callback.reset", w, c)
            /\ wares[w][c].shape = "gen"
            /\ (s = CbInit \/ has_ended(s)) )
          => (last'.out = Ok(None) /\ cbs' = cbs)
    ]_vars

\* C13: a reset of an active generator callback, synchronous or asynchronous,
\* called by the host or by a manager reset, leaves the callback as it was
\* before it was started, whatever the process does with the termination: no
\* handle is held, and a begin call that follows does not raise
\* WareCallbackBegun and leaves the callback active.
C13_ResetReleases ==
  [][\A wc \in GeneratorCallbacks :
       LET w == wc[1]
           c == wc[2]
           b == HostBegin(wares[w][c], cbs'[w][c], TRUE)
       IN (ResetCallOn(w, c) /\ is_active(cbs[w][c])) =>
            /\ cbs'[w][c] = CbInit
            /\ b.out # WareCallbackBegun
            /\ is_active(b.st)
    ]_vars

\* C14: reset() of an active asynchronous generator callback, awaited,
\* returns normally whatever the process raises while it is closed.
C14_AsyncResetNeverFails ==
  [][\A wc \in GeneratorCallbacks :
       LET w == wc[1]
           c == wc[2]
       IN ( /\ CallOn("callback.reset", w, c)
            /\ wares[w][c].shape = "agen"
            /\ is_active(cbs[w][c]) )
          => last'.out.ok
    ]_vars

\* The callback holds a process that was begun and has neither finished nor
\* been reset.
Live(s) == s.gen.h \in {"created", "suspended"}

\* C15: is_active() of a generator callback whose process does not fail is
\* true exactly when the callback holds a process that has neither ended nor
\* been reset, and it is true after every begin call that returns.
C15_IsActiveExact ==
  [][\A wc \in GeneratorCallbacks :
       LET w == wc[1]
           c == wc[2]
           t == cbs'[w][c]
       IN /\ ~wares[w][c].proc.fail => (is_active(t) <=> Live(t))
          /\ (CallOn("callback.begin", w, c) /\ last'.out.ok) => is_active(t)
    ]_vars

\* C16: when reset() or areset() has returned, no generator callback, other
\* than the one named reset, of a ware that is in successes is active.
C16_NoneActiveAfterReset ==
  (last.op \in ResetOps /\ last.out.ok) =>
    \A w \in KeySet(last.successes), c \in CbNames \ {"reset"} :
      IsGeneratorWareCallback(wares[w][c].shape) => ~is_active(cbs[w][c])

C16_Witness ==
  /\ last.op = "areset" /\ last.out.ok
  /\ \E w \in KeySet(last.successes) :
       /\ \E i \in 1..Len(last.log) : last.log[i] = Event("terminate", w, "tick")
       /\ \E i \in 1..Len(last.log) : last.log[i] = Event("terminate", w, "draw")
       /\ \A c \in {"tick", "draw"} : ~is_active(cbs[w][c])

ListedNames(w_names) == {w_names.names[i] : i \in 1..Len(w_names.names)}

\* C17: a manager operation given a list of names works on the listed names
\* that are wares of the manager and on nothing else: the keys of successes
\* and errors are among them (all of them when the operation returns), a
\* listed name that is no ware is in neither dict, the executor is called for
\* no other ware, and the callbacks of the other wares stay as they were.
C17_ListRestricts ==
  [][(last'.op \in ManagerOps /\ last'.names.given) =>
       LET present == ListedNames(last'.names) \cap WareNames
           keys == KeySet(last'.successes) \cup KeySet(last'.errors)
       IN /\ keys \subseteq present
          /\ last'.out.ok => keys = present
          /\ \A i \in 1..Len(last'.log) : last'.log[i].w \in present
          /\ \A w \in WareNames \ present : cbs'[w] = cbs[w]
    ]_vars

C17_Witness ==
  /\ last.op = "areset" /\ last.names = Names(<<"A">>) /\ last.out.ok
  /\ KeySet(last.successes) = {"A"} /\ last.errors = <<>>
  /\ is_active(cbs["B"]["tick"])

\* The first position of k in a sequence.
FirstIn(seq, k) == CHOOSE i \in 1..Len(seq) : seq[i] = k /\ \A j \in 1..(i - 1) : seq[j] # k
\* The names ks come in the order in which they first occur in ref.
InOrder(ks, ref) ==
  \A i, j \in 1..Len(ks) : i < j => FirstIn(ref, ks[i]) < FirstIn(ref, ks[j])
\* The wares the executor was called for, in the order of the calls.
Executed(log) ==
  LET IsCall(e) == e.ev = "executor"
      calls == SelectSeq(log, IsCall)
  IN [i \in 1..Len(calls) |-> calls[i].w]

\* C18 as claimed: every manager operation, with or without a list of names,
\* calls the executor for the wares in the order in which they were given to
\* the constructor, and the keys of successes and of errors are in that order.
C18_RegistrationOrder ==
  last.op \in ManagerOps =>
    /\ InOrder(Executed(last.log), WareOrder)
    /\ InOrder(Keys(last.successes), WareOrder)
    /\ InOrder(Keys(last.errors), WareOrder)

\* C18 amended: the order is that of the constructor when no list of names
\* is given, and that of the first occurrences in the list when one is given.
C18_SelectionOrder ==
  last.op \in ManagerOps =>
    LET ref == IF last.names.given THEN last.names.names ELSE WareOrder
    IN /\ InOrder(Executed(last.log), ref)
       /\ InOrder(Keys(last.successes), ref)
       /\ InOrder(Keys(last.errors), ref)

C18_Witness ==
  /\ last.op = "agen_run_once"
  /\ last.names = Names(<<"B", AbsentName, "A", "B">>)
  /\ Keys(last.successes) = <<"B", "A">>
  /\ Executed(last.log) = <<"B", "A">>

\* An asynchronous generator callback whose process never completes.
AsyncNeverCompletes(cb) == cb.shape = "agen" /\ cb.proc.forever

\* C20: agen_run_once("tick", v) on a ware whose tick is an asynchronous
\* generator callback over a process that never completes: when the callback
\* is not active the call creates the process and advances it to its first
\* yield; when it is active, as it is from then on, the call advances the
\* process by one yield, with any v, and the ware is in successes with the
\* value produced.
C20_AsyncBeginAdvances ==
  [][last'.op = "agen_run_once" =>
       \A w \in TargetedPresent(last'.names) :
         AsyncNeverCompletes(Tick(w)) =>
           LET s == cbs[w]["tick"]
               t == cbs'[w]["tick"]
           IN IF ~is_active(s)
                THEN t.gen = Gen("suspended", 1)
                ELSE /\ t.gen = Gen("suspended", s.gen.pc + 1)
                     /\ InDict(last'.successes, w)
                     /\ ValueOf(last'.successes, w) = Yielded(t.gen.pc)
    ]_vars

\* The process of a callback in state s completes when it is advanced with v.
Completes(cb, s, v) ==
  /\ ~cb.proc.forever /\ ~cb.proc.fail
  /\ \/ s.gen.h = "finished"
     \/ s.gen.h = "suspended" /\ s.gen.pc >= cb.proc.n
     \/ s.gen.h = "created" /\ v = None /\ cb.proc.n = 0
EndedName(cb) == IF cb.shape = "gen" THEN "WareCallbackEnded" ELSE "AsyncWareCallbackEnded"

\* C19: the registry starts with the built-in class under every name and an
\* entry changes only when init is given a class for its name, to that
\* class; and a callback, created before or after the init calls, raises for
\* each of its events (already begun, not begun, ended, async ended) the
\* class the registry holds under the event's name when the call is made.
C19_SignalFromRegistry ==
  /\ \A n \in SignalNames : exceptions[n] = n
  /\ [][ /\ \A n \in SignalNames :
              exceptions'[n] = IF last'.op = "init" /\ n \in DOMAIN last'.val
                                 THEN last'.val[n] ELSE exceptions[n]
         /\ \A wc \in GeneratorCallbacks :
              LET w == wc[1]
                  c == wc[2]
                  cb == wares[w][c]
                  s == cbs[w][c]
                  raises(name) == ~last'.out.ok /\ last'.out.cls = exceptions[name]
              IN /\ (CallOn("callback.begin", w, c) /\ Held(s)) => raises("WareCallbackBegun")
                 /\ (CallOn("callback.run_once", w, c) /\ ~Held(s)) => raises("WareCallbackNotBegun")
                 /\ (CallOn("callback.run_once", w, c) /\ Held(s) /\ Completes(cb, s, last'.val))
                      => raises(EndedName(cb))
                 /\ (CallOn("callback.begin", w, c) /\ ~Held(s) /\ cb.proc.n = 0) =>
                      IF cb.shape = "gen" THEN raises("WareCallbackEnded")
                      ELSE last'.out = Ok(Coroutine) \/ raises("AsyncWareCallbackEnded")
       ]_vars

C19_Witness ==
  /\ exceptions["WareCallbackBegun"] = "OtherBegun"
  /\ exceptions["AsyncWareCallbackEnded"] = "BrandAsyncEnded"
  /\ wares["B"]["tick"].shape = "agen"
  /\ last.op = "callback.run_once" /\ last.w = "B" /\ last.out.cls = "BrandAsyncEnded"
  /\ Held(cbs["A"]["tick"])

\* C21: a run_once call in which the process of a generator callback,
\* synchronous or asynchronous, completes leaves the callback ended:
\* has_ended() is true and is_active() is false.
C21_CompletionEnds ==
  [][\A wc \in GeneratorCallbacks :
       LET w == wc[1]
           c == wc[2]
           s == cbs[w][c]
           t == cbs'[w][c]
       IN ( /\ CallOn("callback.run_once", w, c)
            /\ Held(s) /\ Completes(wares[w][c], s, last'.val) )
          => (has_ended(t) /\ ~is_active(t))
    ]_vars

\* C22: gen_run_once("tick", v) on a ware whose tick is a synchronous
\* generator callback over a process that never completes: when the callback
\* was never begun the call begins it and the ware is in successes with the
\* first value; when it is active the call advances the one process it holds
\* and the ware is in successes with the next value.
C22_StepBeginsOrAdvances ==
  [][last'.op = "gen_run_once" =>
       \A w \in TargetedPresent(last'.names) :
         LET s == cbs[w]["tick"]
             t == cbs'[w]["tick"]
         IN (NeverCompletes(Tick(w)) /\ (s = CbInit \/ is_active(s))) =>
              /\ t = CbState(Gen("suspended", s.gen.pc + 1), FALSE)
              /\ InDict(last'.successes, w)
              /\ ValueOf(last'.successes, w) = Yielded(s.gen.pc + 1)
    ]_vars

\* The manager's step and reset operations.
StepAndResetOps == {"gen_run_once", "reset", "areset"}

\* C23: a synchronous generator callback that has ended is left as it is by
\* gen_run_once, reset and areset: its handle and ended flag do not change,
\* the resets do not terminate it, and a gen_run_once that targets its ware
\* reports the ware in errors and not in successes.
C23_EndedStaysEnded ==
  [][last'.op \in StepAndResetOps =>
       \A w \in WareNames, c \in CbNames :
         (wares[w][c].shape = "gen" /\ has_ended(cbs[w][c])) =>
           /\ cbs'[w][c] = cbs[w][c]
           /\ \A i \in 1..Len(last'.log) : last'.log[i] # Event("terminate", w, c)
           /\ (last'.op = "gen_run_once" /\ c = last'.wc /\ w \in TargetedPresent(last'.names))
                => (InDict(last'.errors, w) /\ ~InDict(last'.successes, w))
    ]_vars

C23_Witness ==
  /\ last.op = "areset" /\ last.out.ok
  /\ \E w \in KeySet(last.successes) :
       /\ wares[w]["tick"].shape = "gen"
       /\ cbs[w]["tick"] = CbState(Gen("finished", 1), TRUE)

\* C24: what a manager operation does to the callbacks of a ware does not
\* depend on the other wares of the batch: a ware that is not targeted keeps
\* the state of its callbacks, and a targeted ware ends with the state the
\* operation on that ware alone gives it (or, when the batch was left before
\* its turn, with the state it had).
C24_OtherWaresUntouched ==
  [][last'.op \in ManagerOps =>
       \A w \in WareNames :
         LET a == Args(last'.wc, last'.val, last'.bad)
             alone == RunBatch(last'.op, a, Names(<<w>>), wares, cbs).cbs[w]
         IN /\ w \notin TargetedPresent(last'.names) => cbs'[w] = cbs[w]
            /\ cbs'[w] \in {cbs[w], alone}
            /\ (last'.out.ok /\ w \in TargetedPresent(last'.names)) => cbs'[w] = alone
    ]_vars

C24_Witness ==
  /\ last.op = "agen_run_once" /\ ~last.names.given
  /\ wares["A"]["tick"].shape = "gen" /\ cbs["A"]["tick"] = CbState(Gen("suspended", 1), FALSE)
  /\ InDict(last.errors, "A")
  /\ InDict(last.successes, "B") /\ ValueOf(last.successes, "B") = Yielded(2)
  /\ cbs["B"]["tick"] = CbState(Gen("suspended", 2), FALSE)

\* The module's value matches what the schema expects: it is an instance of
\* the type, or the validator accepts it.
Matches(v, mval) ==
  IF IsType(v) THEN IsInstance(mval, v.name) ELSE Validate(v, mval) = "truthy"
\* The positions of the schema's names that are missing from the module or
\* whose value does not match.
BadItems(module, ns_schema) ==
  {i \in 1..Len(ns_schema) :
     \/ ns_schema[i].k \notin DOMAIN module
     \/ ~Matches(ns_schema[i].v, module[ns_schema[i].k])}
IsCallbackObject(x) == IsInstance(x, "WareCallback")

\* C25: _load raises InvalidWareStructure for the first name of the schema
\* that is missing from the module or whose value does not match, and when
\* there is none it returns a ware whose callbacks hold the module's value
\* for each schema name whose value is a callback object and whose globals
\* hold the module's value for each other schema name.
C25_LoaderSorts ==
  loader.called =>
    LET module == loader.module
        ns_schema == loader.ns_schema
        bad == BadItems(module, ns_schema)
        out == loader.out
    IN IF bad # {}
         THEN out = InvalidWareStructure(ns_schema[CHOOSE i \in bad : \A j \in bad : i <= j].k)
         ELSE /\ out.ok
              /\ KeySet(out.callbacks) \cup KeySet(out.globals) = KeySet(ns_schema)
              /\ \A k \in KeySet(ns_schema) :
                   IF IsCallbackObject(module[k])
                     THEN /\ InDict(out.callbacks, k) /\ ~InDict(out.globals, k)
                          /\ ValueOf(out.callbacks, k) = module[k]
                     ELSE /\ InDict(out.globals, k) /\ ~InDict(out.callbacks, k)
                          /\ ValueOf(out.globals, k) = module[k]

\* A module the host holds was imported from dir with register_dir.
Relying(h, dir) == \E m \in ModuleObjects : h[m] > 0 /\ m.dir = dir /\ m.reg

\* C26: in every import and release, (a) when the last held module that was
\* imported from a directory with register_dir is released, the directory is
\* no longer in sys.path; (b) a directory leaves sys.path only when no held
\* module imported from it with register_dir is left; (c) when the host holds
\* no module, sys.path is what it was before the first import and
\* _module_path_registry is empty.
C26_PathBookkeeping ==
  [][ /\ \A d \in Dirs :
           (Relying(held, d) /\ ~Relying(held', d)) => ~InPath(sys_path', d)
      /\ \A d \in Dirs :
           (InPath(sys_path, d) /\ ~InPath(sys_path', d)) => ~Relying(held', d)
      /\ (\A m \in ModuleObjects : held'[m] = 0) =>
           /\ sys_path' = InitialPath
           /\ \A n \in ModuleNames : _module_path_registry'[n] = NoDir
    ]_vars

====
